---- MODULE Spec2Model ----
(***************************************************************************)
(* Model of main.py: a sparse board of tokens (class Board) behind a      *)
(* command dispatcher (class App).  One action per command that a caller  *)
(* can hand to App.execute; each action runs the whole of execute and the *)
(* handler it routes to.                                                  *)
(***************************************************************************)
EXTENDS Integers, FiniteSets, Sequences, TLC

\* ---------------------------------------------------------------- bounds
\* Payload coordinates are the pairs (x, y) of naturals with x + y <= MaxCoord,
\* declared extents the pairs (width, height) of positive integers with
\* width + height <= MaxExtent + 1.  With MaxCoord = 1 and MaxExtent = 2 a
\* board of width 1 meets x = 1 and a board of height 1 meets y = 1, so
\* coordinates outside the declared extent occur on both axes.
MaxCoord == 1
MaxExtent == 2

Coords == {c \in (0..MaxCoord) \X (0..MaxCoord) : c[1] + c[2] <= MaxCoord}
Extents == {e \in (1..MaxExtent) \X (1..MaxExtent) : e[1] + e[2] <= MaxExtent + 1}
Symbols == {"X", "O"}
PayloadKeys == {"x", "y", "symbol"}

\* ------------------------------------------------------- python values
\* Values execute can return: None, a str, or the Board held in self.board
\* (a reference: it denotes whatever app.board is in the same state).
None == [kind |-> "None", value |-> ""]
Str(s) == [kind |-> "str", value |-> s]
BoardRef == [kind |-> "Board", value |-> "self.board"]
\* The str that Board.__str__ builds, as the sequence of its characters
\* (a token's value is one character).
Text(chars) == [kind |-> "str", chars |-> chars]
\* No value: the call raised instead of returning.
NoValue == [kind |-> "raised", value |-> ""]

NoException == [type |-> "none", arg |-> ""]
KeyError(k) == [type |-> "KeyError", arg |-> k]
AttributeError(a) == [type |-> "AttributeError", arg |-> a]

\* Outcome of a call on the dispatcher: its attributes afterwards, and the
\* value returned or the exception that propagated.
Return(app, value) == [app |-> app, result |-> value, raised |-> NoException]
Raise(app, exc) == [app |-> app, result |-> NoValue, raised |-> exc]

\* ------------------------------------------------ implementation classes
Token(value) == [value |-> value]

\* Board.__init__
Board(width, height) == [width |-> width, height |-> height, positions |-> <<>>]

\* Board.__str__, inner loop: the cells of one row from `column` on, each
\* the token's value or "." followed by a space.
RECURSIVE RowText(_, _, _)
RowText(self, row, column) ==
    IF column >= self.width THEN <<>>
    ELSE (IF <<column, row>> \in DOMAIN self.positions
          THEN <<self.positions[<<column, row>>].value, " ">>
          ELSE <<".", " ">>)
         \o RowText(self, row, column + 1)

\* Board.__str__, outer loop: the rows from `row` on, each followed by two
\* newlines.
RECURSIVE RowsText(_, _)
RowsText(self, row) ==
    IF row >= self.height THEN <<>>
    ELSE RowText(self, row, 0) \o <<"\n", "\n">> \o RowsText(self, row + 1)

\* Variant of Board.__str__ that looks each cell up as (row, column).
Board_str_transposed(self) ==
    RowsText([self EXCEPT !.positions =
                 [p \in {<<q[2], q[1]>> : q \in DOMAIN self.positions} |->
                     self.positions[<<p[2], p[1]>>]]], 0)

\* Board.__str__
Board_str(self) == RowsText(self, 0)

\* Variant of Board.get_token that reads the key tuple as (row, column).
Board_get_token_transposed(self, x, y) ==
    IF <<y, x>> \in DOMAIN self.positions
    THEN Str(self.positions[<<y, x>>].value)
    ELSE None

\* Board.get_token: scan the keys for (x, y); its token's value, else None.
Board_get_token(self, x, y) ==
    IF \E position \in DOMAIN self.positions : x = position[1] /\ y = position[2]
    THEN Str(self.positions[<<x, y>>].value)
    ELSE None

\* Variant of Board.remove_token that matches on the column alone and
\* deletes every entry of that column.
Board_remove_token_column(self, x, y) ==
    [self EXCEPT !.positions =
        [p \in {q \in DOMAIN self.positions : q[1] # x} |-> self.positions[p]]]

\* Variant of Board.remove_token that finds the entry and leaves it in place.
Board_remove_token_kept(self, x, y) == self

\* Board.remove_token: scan the keys for (x, y) and delete that entry.
Board_remove_token(self, x, y) ==
    IF \E position \in DOMAIN self.positions : x = position[1] /\ y = position[2]
    THEN [self EXCEPT !.positions =
             [p \in DOMAIN self.positions \ {<<x, y>>} |-> self.positions[p]]]
    ELSE self

\* Variant of Board.place_token that keeps the token already there
\* (dict.setdefault instead of assignment).
Board_place_token_setdefault(self, x, y, symbol) ==
    IF <<x, y>> \in DOMAIN self.positions
    THEN self
    ELSE [self EXCEPT !.positions =
             [p \in DOMAIN self.positions \cup {<<x, y>>} |->
                 IF p = <<x, y>> THEN Token(symbol) ELSE self.positions[p]]]

\* Variant of Board.place_token that ignores a coordinate outside the
\* declared extent.
Board_place_token_bounded(self, x, y, symbol) ==
    IF x >= self.width \/ y >= self.height
    THEN self
    ELSE [self EXCEPT !.positions =
             [p \in DOMAIN self.positions \cup {<<x, y>>} |->
                 IF p = <<x, y>> THEN Token(symbol) ELSE self.positions[p]]]

\* Variant of Board.place_token that rebinds positions to a dict holding
\* the new token alone.
Board_place_token_rebound(self, x, y, symbol) ==
    [self EXCEPT !.positions = [p \in {<<x, y>>} |-> Token(symbol)]]

\* Board.place_token: self.positions[(x, y)] = Token(symbol)
Board_place_token(self, x, y, symbol) ==
    [self EXCEPT !.positions =
        [p \in DOMAIN self.positions \cup {<<x, y>>} |->
            IF p = <<x, y>> THEN Token(symbol) ELSE self.positions[p]]]

\* ------------------------------------------------------------ dispatcher
\* The keys of App.commands, fixed in App.__init__.
Commands == {"create_board", "place_token", "get_token", "remove_token"}

HasBoard(app) == "board" \in DOMAIN app

\* Variant of App.create_board whose boards share one positions dict (a
\* class-level attribute): the new board starts with the old board's tokens.
App_create_board_shared(app, options) ==
    IF "x" \notin DOMAIN options THEN Raise(app, KeyError("x"))
    ELSE IF "y" \notin DOMAIN options THEN Raise(app, KeyError("y"))
    ELSE Return([board |-> [Board(options.x, options.y) EXCEPT !.positions =
                               IF HasBoard(app) THEN app.board.positions ELSE <<>>]],
                BoardRef)

\* Variant of App.create_board that defaults a missing y to x (a square
\* board) instead of raising.
App_create_board_square(app, options) ==
    IF "x" \notin DOMAIN options THEN Raise(app, KeyError("x"))
    ELSE IF "y" \notin DOMAIN options
         THEN Return([board |-> Board(options.x, options.x)], BoardRef)
    ELSE Return([board |-> Board(options.x, options.y)], BoardRef)

\* Variant of App.create_board that discards the current board before it
\* reads the payload, so a payload lacking a key leaves no board behind.
App_create_board_reset(app, options) ==
    IF "x" \notin DOMAIN options THEN Raise(<<>>, KeyError("x"))
    ELSE IF "y" \notin DOMAIN options THEN Raise(<<>>, KeyError("y"))
    ELSE Return([board |-> Board(options.x, options.y)], BoardRef)

\* App.create_board: options['x'], options['y'] are read before the Board
\* is built and before self.board is assigned.
App_create_board(app, options) ==
    IF "x" \notin DOMAIN options THEN Raise(app, KeyError("x"))
    ELSE IF "y" \notin DOMAIN options THEN Raise(app, KeyError("y"))
    ELSE Return([board |-> Board(options.x, options.y)], BoardRef)

\* App.place_token: self.board is loaded first, then the three subscripts.
App_place_token(app, options) ==
    IF ~HasBoard(app) THEN Raise(app, AttributeError("board"))
    ELSE IF "x" \notin DOMAIN options THEN Raise(app, KeyError("x"))
    ELSE IF "y" \notin DOMAIN options THEN Raise(app, KeyError("y"))
    ELSE IF "symbol" \notin DOMAIN options THEN Raise(app, KeyError("symbol"))
    ELSE Return([app EXCEPT !.board =
                    Board_place_token(app.board, options.x, options.y, options.symbol)],
                None)

\* Variant of App.get_token that answers None when no board exists instead
\* of touching self.board.
App_get_token_swallowed(app, options) ==
    IF ~HasBoard(app) THEN Return(app, None)
    ELSE IF "x" \notin DOMAIN options THEN Raise(app, KeyError("x"))
    ELSE IF "y" \notin DOMAIN options THEN Raise(app, KeyError("y"))
    ELSE Return(app, Board_get_token(app.board, options.x, options.y))

\* App.get_token
App_get_token(app, options) ==
    IF ~HasBoard(app) THEN Raise(app, AttributeError("board"))
    ELSE IF "x" \notin DOMAIN options THEN Raise(app, KeyError("x"))
    ELSE IF "y" \notin DOMAIN options THEN Raise(app, KeyError("y"))
    ELSE Return(app, Board_get_token(app.board, options.x, options.y))

\* App.remove_token
App_remove_token(app, options) ==
    IF ~HasBoard(app) THEN Raise(app, AttributeError("board"))
    ELSE IF "x" \notin DOMAIN options THEN Raise(app, KeyError("x"))
    ELSE IF "y" \notin DOMAIN options THEN Raise(app, KeyError("y"))
    ELSE Return([app EXCEPT !.board =
                    Board_remove_token(app.board, options.x, options.y)],
                None)

\* Variant of App.execute that answers a name outside the table with a
\* sentinel of its own instead of a bare return.
App_execute_sentinel(app, action) ==
    IF action.name \notin Commands THEN Return(app, [kind |-> "NoOp", value |-> ""])
    ELSE CASE action.name = "create_board" -> App_create_board(app, action.payload)
           [] action.name = "place_token" -> App_place_token(app, action.payload)
           [] action.name = "get_token" -> App_get_token(app, action.payload)
           [] action.name = "remove_token" -> App_remove_token(app, action.payload)

\* Variant of App.execute without the membership test: the table lookup
\* itself raises KeyError for a name outside the table.
App_execute_unguarded(app, action) ==
    CASE action.name = "create_board" -> App_create_board(app, action.payload)
      [] action.name = "place_token" -> App_place_token(app, action.payload)
      [] action.name = "get_token" -> App_get_token(app, action.payload)
      [] action.name = "remove_token" -> App_remove_token(app, action.payload)
      [] OTHER -> Raise(app, KeyError(action.name))

\* App.execute: a bare return for a name outside the table, else the
\* handler's own return value.
App_execute(app, action) ==
    IF action.name \notin Commands THEN Return(app, None)
    ELSE CASE action.name = "create_board" -> App_create_board(app, action.payload)
           [] action.name = "place_token" -> App_place_token(app, action.payload)
           [] action.name = "get_token" -> App_get_token(app, action.payload)
           [] action.name = "remove_token" -> App_remove_token(app, action.payload)

\* Variant of str(app.board) whose __str__ subscripts positions without the
\* membership test: an empty cell inside the extent raises KeyError.
StrBoard_unchecked(app) ==
    IF ~HasBoard(app) THEN Raise(app, AttributeError("board"))
    ELSE IF \E column \in 0..(app.board.width - 1), row \in 0..(app.board.height - 1) :
                <<column, row>> \notin DOMAIN app.board.positions
         THEN Raise(app, KeyError("(column, row)"))
    ELSE Return(app, Text(Board_str(app.board)))

\* str(app.board), as the test loop evaluates it after each execute:
\* app.board is loaded first, then Board.__str__ runs.
StrBoard(app) ==
    IF ~HasBoard(app) THEN Raise(app, AttributeError("board"))
    ELSE Return(app, Text(Board_str(app.board)))

\* ----------------------------------------------------------------- state
VARIABLES
    app,        \* the App instance's attributes: <<>> or [board |-> Board]
    last,       \* the Action handed to the most recent execute, or the
                \* name "__str__" when the most recent call rendered the board
    result,     \* what that call returned (NoValue if it raised)
    raised,     \* the exception that call propagated, or NoException
    pre,        \* history: app as it was when that call was made
    live        \* history: per coordinate, what the command log says of it

vars == <<app, last, result, raised, pre, live>>

\* Action(name, payload)
Action(name, payload) == [name |-> name, payload |-> payload]

\* A payload dict holding exactly the given keys.
Payload(keys, x, y, symbol) ==
    [k \in keys |-> CASE k = "x" -> x [] k = "y" -> y [] k = "symbol" -> symbol]

\* History of the command log, kept apart from the board: every coordinate
\* "absent" after a completed create_board, the symbol after a completed
\* place_token there, "absent" again after a completed remove_token there.
LiveAfter(lv, action, outcome) ==
    IF outcome.raised # NoException THEN lv
    ELSE CASE action.name = "create_board" -> [c \in Coords |-> "absent"]
           [] action.name = "place_token" ->
                [lv EXCEPT ![<<action.payload.x, action.payload.y>>] = action.payload.symbol]
           [] action.name = "remove_token" ->
                [lv EXCEPT ![<<action.payload.x, action.payload.y>>] = "absent"]
           [] OTHER -> lv

\* The module-level `app = App()`: no board attribute yet.
Init ==
    /\ app = <<>>
    /\ last = Action("__init__", <<>>)
    /\ result = None
    /\ raised = NoException
    /\ pre = <<>>
    /\ live = [c \in Coords |-> "absent"]

\* app.execute(action), run to completion; each command's action records
\* the Action in last and hands it here.
Execute(action) ==
    LET outcome == App_execute(app, action) IN
    /\ app' = outcome.app
    /\ result' = outcome.result
    /\ raised' = outcome.raised
    /\ pre' = app
    /\ live' = LiveAfter(live, action, outcome)

\* ---------------------------------------------------------------- inputs
\* Payloads shaped as test_commands shapes them: create_board gets x and y,
\* the board-scoped commands get x, y and symbol (get_token and
\* remove_token never read symbol).
CreatePayloads == {Payload({"x", "y"}, e[1], e[2], "X") : e \in Extents}
TokenPayloads == {Payload(PayloadKeys, c[1], c[2], s) : c \in Coords, s \in Symbols}
LookupPayloads == {Payload(PayloadKeys, c[1], c[2], "X") : c \in Coords}

\* Payloads that lack at least one of the keys the handler reads.
LackingXY == {Payload(keys, 1, 1, "X") : keys \in SUBSET {"x", "y"} \ {{"x", "y"}}}
LackingXYSymbol == {Payload(keys, 1, 1, "X") : keys \in SUBSET PayloadKeys \ {PayloadKeys}}

CreateBoard ==
    \E payload \in CreatePayloads \cup LackingXY :
        /\ last' = Action("create_board", payload)
        /\ Execute(last')

PlaceToken ==
    \E payload \in TokenPayloads \cup LackingXYSymbol :
        /\ last' = Action("place_token", payload)
        /\ Execute(last')

GetToken ==
    \E payload \in LookupPayloads \cup LackingXY :
        /\ last' = Action("get_token", payload)
        /\ Execute(last')

RemoveToken ==
    \E payload \in LookupPayloads \cup LackingXY :
        /\ last' = Action("remove_token", payload)
        /\ Execute(last')

\* A name that is not a key of App.commands.
UnknownNames == {"move_token"}

UnknownCommand ==
    \E name \in UnknownNames, payload \in {<<>>, Payload(PayloadKeys, 0, 0, "X")} :
        /\ last' = Action(name, payload)
        /\ Execute(last')

\* print(str(app.board)): the caller renders the current board.
PrintBoard ==
    LET outcome == StrBoard(app) IN
    /\ last' = Action("__str__", <<>>)
    /\ app' = outcome.app
    /\ result' = outcome.result
    /\ raised' = outcome.raised
    /\ pre' = app
    /\ live' = live

Next ==
    \/ CreateBoard
    \/ PlaceToken
    \/ GetToken
    \/ RemoveToken
    \/ UnknownCommand
    \/ PrintBoard

Spec == Init /\ [][Next]_vars

\* ---------------------------------------------------------------- claims
\* The most recent execute was handed this command name.
Called(name) == last.name = name
\* ... and returned instead of raising.
Completed(name) == last.name = name /\ raised = NoException
\* The coordinate the most recent payload names (when it holds x and y).
At == <<last.payload.x, last.payload.y>>
\* The Actions a caller builds to look up or remove the token at c.
GetAt(c) == Action("get_token", Payload({"x", "y"}, c[1], c[2], "X"))
RemoveAt(c) == Action("remove_token", Payload({"x", "y"}, c[1], c[2], "X"))

\* C1: on an active board, get_token at (x,y) right after place_token
\* {x,y,symbol:s} returns s; a later get_token at (x,y) still returns s as
\* long as the command log has no place_token or remove_token at (x,y) and no
\* create_board in between; get_token right after remove_token {x,y}
\* returns None.
C1_PlaceGetRemove ==
    /\ Completed("place_token") =>
            App_execute(app, GetAt(At)) = Return(app, Str(last.payload.symbol))
    /\ Completed("remove_token") =>
            App_execute(app, GetAt(At)) = Return(app, None)
    /\ (Completed("get_token") /\ live[At] \in Symbols) => result = Str(live[At])

\* C1 witness: a get_token returned "O" while the board also holds another
\* token, so the symbol read is the one placed at that coordinate.
C1_Witness ==
    /\ Completed("get_token")
    /\ result = Str("O")
    /\ \E d \in DOMAIN app.board.positions : d # At /\ app.board.positions[d] = Token("X")

\* C2: place_token at an occupied (x,y) raises nothing and leaves only the
\* new symbol there: get_token returns it, the mapping has the same keys as
\* before, and one remove_token makes get_token return None.
C2_Overwrite ==
    (/\ Called("place_token")
     /\ PayloadKeys \subseteq DOMAIN last.payload
     /\ HasBoard(pre)
     /\ At \in DOMAIN pre.board.positions)
    => /\ raised = NoException
       /\ App_execute(app, GetAt(At)).result = Str(last.payload.symbol)
       /\ DOMAIN app.board.positions = DOMAIN pre.board.positions
       /\ LET removed == App_execute(app, RemoveAt(At)) IN
            /\ removed.raised = NoException
            /\ App_execute(removed.app, GetAt(At)).result = None

\* C2 witness: a place_token landed on a cell holding the other symbol.
C2_Witness ==
    /\ Completed("place_token")
    /\ HasBoard(pre)
    /\ At \in DOMAIN pre.board.positions
    /\ pre.board.positions[At] # Token(last.payload.symbol)

\* C3: in every reachable board state and for every coordinate, a second
\* remove_token changes nothing the first left: no entry at the coordinate,
\* every other entry as it was, neither call raises; and a remove_token of
\* an absent coordinate returns None, raises nothing and changes nothing.
C3_IdempotentRemove ==
    /\ HasBoard(app) =>
         \A c \in Coords :
            LET once == App_execute(app, RemoveAt(c))
                twice == App_execute(once.app, RemoveAt(c)) IN
            /\ once.raised = NoException
            /\ twice = Return(once.app, None)
            /\ c \notin DOMAIN once.app.board.positions
            /\ DOMAIN once.app.board.positions = DOMAIN app.board.positions \ {c}
            /\ \A d \in DOMAIN once.app.board.positions :
                    once.app.board.positions[d] = app.board.positions[d]
            /\ once.app.board.width = app.board.width
            /\ once.app.board.height = app.board.height
    /\ (/\ Called("remove_token")
        /\ {"x", "y"} \subseteq DOMAIN last.payload
        /\ HasBoard(pre)
        /\ At \notin DOMAIN pre.board.positions)
       => raised = NoException /\ result = None /\ app = pre

\* C3 witness: a remove_token ran on a coordinate with no entry while other
\* coordinates held tokens.
C3_Witness ==
    /\ Completed("remove_token")
    /\ HasBoard(pre)
    /\ At \notin DOMAIN pre.board.positions
    /\ Cardinality(DOMAIN pre.board.positions) >= 2

\* C4: whenever a board exists, a coordinate is a key of its mapping exactly
\* when the command log's latest place_token there since the last
\* create_board has no remove_token after it, and get_token returns None at
\* every coordinate the log leaves absent.
C4_AbsenceInvariant ==
    HasBoard(app) =>
        /\ DOMAIN app.board.positions \subseteq Coords
        /\ \A c \in Coords :
            /\ c \in DOMAIN app.board.positions <=> live[c] \in Symbols
            /\ live[c] = "absent" => App_execute(app, GetAt(c)) = Return(app, None)

\* C4 witness: a remove_token deleted an entry while another stayed.
C4_Witness ==
    /\ Completed("remove_token")
    /\ At \in DOMAIN pre.board.positions
    /\ live[At] = "absent"
    /\ app.board.positions # <<>>

\* C5: execute of a name outside the routing table raises nothing and
\* leaves the dispatcher as it was: no board appears, and an existing
\* board keeps its width, height and mapping.
C5_UnknownCommandSafe ==
    last.name \in UnknownNames => raised = NoException /\ app = pre

\* C5 witness: an unknown name was executed on a board holding tokens.
C5_Witness ==
    /\ last.name \in UnknownNames
    /\ HasBoard(app)
    /\ app.board.positions # <<>>

\* The values the four routed commands return: create_board the board,
\* get_token a symbol or None, place_token and remove_token None.
ValidResults == {None, BoardRef} \cup {Str(s) : s \in Symbols}

\* C6 as stated: the result for a name outside the routing table differs
\* from every result a routed command returns, None included.
C6_DistinctNoOpResult ==
    last.name \in UnknownNames => result \notin ValidResults

\* C6 amended: the result for a name outside the routing table is None, the
\* very value get_token returns for an absent coordinate and place_token and
\* remove_token return always; it differs only from create_board's board
\* and from a symbol returned by get_token.
C6_UnknownReturnsNone ==
    /\ last.name \in UnknownNames => result = None
    /\ (Completed("place_token") \/ Completed("remove_token")) => result = None
    /\ (Completed("get_token") /\ At \notin DOMAIN app.board.positions) => result = None
    /\ (Completed("get_token") /\ At \in DOMAIN app.board.positions) => result.kind = "str"
    /\ Completed("create_board") => result = BoardRef

\* C6 witness: an unknown name returned, on an active board, exactly what
\* get_token returns there for an absent coordinate.
C6_Witness ==
    /\ last.name \in UnknownNames
    /\ HasBoard(app)
    /\ \E c \in Coords : c \notin DOMAIN app.board.positions
                         /\ App_execute(app, GetAt(c)).result = result

\* C7: create_board with x and y never raises, in either dispatcher state;
\* afterwards the board has width x, height y and no token, it is the value
\* returned, and get_token returns None at every coordinate.
C7_CreateBoardFresh ==
    (Called("create_board") /\ {"x", "y"} \subseteq DOMAIN last.payload)
    => /\ raised = NoException
       /\ app = [board |-> [width |-> last.payload.x,
                            height |-> last.payload.y,
                            positions |-> <<>>]]
       /\ result = BoardRef
       /\ \A c \in Coords : App_execute(app, GetAt(c)) = Return(app, None)

\* C7 witness: create_board replaced a board of another width that held
\* tokens.
C7_Witness ==
    /\ Completed("create_board")
    /\ HasBoard(pre)
    /\ pre.board.positions # <<>>
    /\ pre.board.width # app.board.width

BoardScoped == {"place_token", "get_token", "remove_token"}

\* C8: a board-scoped command executed while no board exists raises the
\* missing-board error (AttributeError on self.board) to the caller, returns
\* nothing, and leaves the dispatcher without a board.
C8_NoBoardRaises ==
    (last.name \in BoardScoped /\ ~HasBoard(pre))
    => /\ raised = AttributeError("board")
       /\ result = NoValue
       /\ ~HasBoard(app)

\* C8 witness: a well-formed place_token was executed before any
\* create_board.
C8_Witness ==
    /\ Called("place_token")
    /\ PayloadKeys \subseteq DOMAIN last.payload
    /\ ~HasBoard(pre)
    /\ raised # NoException

\* The keys the most recent command's handler reads, and those of them its
\* payload lacks; the first of these in the order the handler reads them.
Required == IF last.name = "place_token" THEN PayloadKeys ELSE {"x", "y"}
MissingKeys == Required \ DOMAIN last.payload
FirstMissing ==
    IF "x" \in MissingKeys THEN "x" ELSE IF "y" \in MissingKeys THEN "y" ELSE "symbol"

\* C9 as stated: every routed command whose payload lacks a required key
\* fails with an error naming a missing key and changes nothing.
C9_MissingKeyNamed ==
    (last.name \in Commands /\ MissingKeys # {})
    => /\ raised.type = "KeyError"
       /\ raised.arg \in MissingKeys
       /\ app = pre

\* C9 amended: a payload lacking a required key makes create_board (in
\* either state) and the board-scoped commands on an active board fail with
\* a KeyError naming the first missing key in the order x, y, symbol; with
\* no board, the board-scoped commands fail with the missing-board
\* AttributeError instead; in every case nothing is returned and the
\* dispatcher is unchanged.
C9_MissingKeyError ==
    (last.name \in Commands /\ MissingKeys # {})
    => /\ raised = IF last.name = "create_board" \/ HasBoard(pre)
                   THEN KeyError(FirstMissing)
                   ELSE AttributeError("board")
       /\ result = NoValue
       /\ app = pre

\* C9 witness: place_token without a symbol failed on a board holding
\* tokens.
C9_Witness ==
    /\ Called("place_token")
    /\ MissingKeys = {"symbol"}
    /\ HasBoard(pre)
    /\ pre.board.positions # <<>>
    /\ raised = KeyError("symbol")

\* A coordinate outside the declared extent of a board.
OutOfRange(c, board) == c[1] >= board.width \/ c[2] >= board.height

\* C10: a board-scoped command at a coordinate outside the declared extent
\* never raises; place_token stores the token and get_token returns it
\* there; get_token returns None where nothing was placed.
C10_OutOfRangeTolerated ==
    (/\ last.name \in BoardScoped
     /\ MissingKeys = {}
     /\ HasBoard(pre)
     /\ OutOfRange(At, pre.board))
    => /\ raised = NoException
       /\ Called("place_token") =>
            /\ At \in DOMAIN app.board.positions
            /\ App_execute(app, GetAt(At)) = Return(app, Str(last.payload.symbol))
       /\ Called("get_token") =>
            result = IF At \in DOMAIN pre.board.positions
                     THEN Str(pre.board.positions[At].value)
                     ELSE None
       /\ Called("remove_token") => At \notin DOMAIN app.board.positions

\* C10 witness: get_token returned a symbol from a row at or beyond the
\* declared height, in a column inside the declared width.
C10_Witness ==
    /\ Completed("get_token")
    /\ HasBoard(app)
    /\ At[2] >= app.board.height
    /\ At[1] < app.board.width
    /\ result.kind = "str"

\* C11 as stated: rendering the board never raises, whatever the dispatcher
\* state.
C11_RenderNeverFails ==
    Called("__str__") => raised = NoException

\* C11 amended: rendering the board changes nothing; with a board active it
\* raises nothing and returns text; with no board there is no notional empty
\* board and str(app.board) raises the missing-board AttributeError.
C11_RenderFailsOnlyWithoutBoard ==
    Called("__str__")
    => /\ app = pre
       /\ IF HasBoard(pre)
          THEN raised = NoException /\ result.kind = "str" /\ Len(result.chars) > 0
          ELSE raised = AttributeError("board") /\ result = NoValue

\* C11 witness: a board with an empty cell inside its extent and a token
\* outside it was rendered.
C11_Witness ==
    /\ Completed("__str__")
    /\ <<0, 0>> \notin DOMAIN app.board.positions
    /\ \E c \in DOMAIN app.board.positions :
            c[1] >= app.board.width \/ c[2] >= app.board.height

\* The entries of a board that lie inside its declared extent.
InExtent(board) ==
    {c \in DOMAIN board.positions : c[1] < board.width /\ c[2] < board.height}

\* C12: the text rendered for a board of width W and height H is H rows in
\* the order y = 0..H-1; row y is the W cells x = 0..W-1, each the stored
\* symbol or "." followed by a space, and is followed by two newlines (a
\* blank line after it); an empty 2x2 board gives ". . " twice; tokens
\* outside the extent leave the text as it would be without them.
C12_RenderLayout ==
    /\ Board_str(Board(2, 2)) =
           <<".", " ", ".", " ", "\n", "\n", ".", " ", ".", " ", "\n", "\n">>
    /\ Completed("__str__") =>
         LET board == app.board
             W == board.width
             H == board.height
             stride == 2 * W + 2
             out == result.chars IN
         /\ Len(out) = H * stride
         /\ \A y \in 0..(H - 1) :
              /\ \A x \in 0..(W - 1) :
                   /\ out[y * stride + 2 * x + 1] =
                         IF <<x, y>> \in DOMAIN board.positions
                         THEN board.positions[<<x, y>>].value
                         ELSE "."
                   /\ out[y * stride + 2 * x + 2] = " "
              /\ out[y * stride + 2 * W + 1] = "\n"
              /\ out[y * stride + 2 * W + 2] = "\n"
         /\ out = Board_str([board EXCEPT !.positions =
                                [c \in InExtent(board) |-> board.positions[c]]])

\* C12 witness: a board of height 2 was rendered with a token in its second
\* row and another token outside its extent.
C12_Witness ==
    /\ Completed("__str__")
    /\ app.board.height = 2
    /\ <<0, 1>> \in DOMAIN app.board.positions
    /\ DOMAIN app.board.positions # InExtent(app.board)

\* C13: the dispatcher starts without a board; a call leaves "no board"
\* only if it is a create_board that returned; and no call, whether it
\* returns or raises, takes a dispatcher that has a board back to "no
\* board": board is then the dispatcher's one attribute.
C13_Lifecycle ==
    /\ Called("__init__") => ~HasBoard(app)
    /\ (~HasBoard(pre) /\ HasBoard(app)) => Completed("create_board")
    /\ HasBoard(pre) => DOMAIN app = {"board"}

\* C13 witness: a create_board lacking a key raised on an active board
\* that held tokens, and the board is still there.
C13_Witness ==
    /\ Called("create_board")
    /\ raised # NoException
    /\ HasBoard(pre)
    /\ pre.board.positions # <<>>
    /\ HasBoard(app)

\* C14: a place_token or remove_token that returned left the board's width
\* and height and every entry other than the one at its (x,y) as they were
\* (remove_token took away at most one entry); a get_token, returned or
\* raised, left the dispatcher as it was, and the same get_token executed
\* again returns the same result.
C14_Frame ==
    /\ (Completed("place_token") \/ Completed("remove_token")) =>
         /\ app.board.width = pre.board.width
         /\ app.board.height = pre.board.height
         /\ DOMAIN app.board.positions \ {At} = DOMAIN pre.board.positions \ {At}
         /\ \A c \in DOMAIN pre.board.positions \ {At} :
                app.board.positions[c] = pre.board.positions[c]
    /\ Completed("remove_token") =>
         Cardinality(DOMAIN pre.board.positions)
             - Cardinality(DOMAIN app.board.positions) \in {0, 1}
    /\ Called("get_token") => app = pre
    /\ Completed("get_token") =>
         LET again == App_execute(app, last) IN
         /\ again = Return(app, result)
         /\ App_execute(again.app, last) = again

\* C14 witness: a remove_token deleted one entry of a board that keeps two
\* others.
C14_Witness ==
    /\ Completed("remove_token")
    /\ At \in DOMAIN pre.board.positions
    /\ Cardinality(DOMAIN app.board.positions) = 2

====
